---- MODULE Spec2Model ----
(***************************************************************************)
(* A model of bedpa.py: the Bed6 / Bed12 readers over tab-delimited BED    *)
(* files.  A reader parses a whole file into an in-memory table (pandas    *)
(* read_table, which infers one dtype per column), answers queries over    *)
(* the table, and writes derived files (pandas to_csv, which formats each  *)
(* value back to text).  The file system, the reader objects and the last  *)
(* call with its result are the state.                                     *)
(*                                                                         *)
(* Only the columns the code reads are kept in a row: column 0             *)
(* (chromosome), column 5 (strand) and column 7 (sequence type).           *)
(*                                                                         *)
(* A value of the table is typed as pandas types it: a str, an int, a      *)
(* float or NaN.  A file is the sequence of its lines, each line the text  *)
(* of its fields; a file of no lines is a zero-length file.  A file name   *)
(* is the sequence of its dot-separated segments.  Percentages are         *)
(* integers, in hundredths of a percent.                                   *)
(***************************************************************************)
EXTENDS Integers, Sequences, FiniteSets, TLC

\* fs:      the files on disk, by path
\* readers: the reader objects constructed so far
\* last:    the last call: method, reader, argument, returned value, exception
\* left:    the calls still to come
\* repeat:  the last call was the call before it over again (history)
VARIABLES fs, readers, last, left, repeat

vars == <<fs, readers, last, left, repeat>>

(* ---------------------------- bounds ---------------------------------- *)

\* longest source file, in lines
MaxRows == 2
\* longest sequence of calls after the first construction
MaxCalls == 2
\* longest sequence of calls of a chained run (filter, reload, filter, ...)
MaxChain == 3

(* ------------------------- input alphabets ---------------------------- *)

ChrTokens == {"chr1", "1"}
StrandTokens == {"+", "-", "."}
TypeTokens == {"exon", ""}
ChainTypeTokens == {"exon", "gene", ""}

ChrArgs == {"chr1", "1"}
StrandArgs == {"plus", "minus", "both"}
TypeArgs == {"exon", "gene"}

FileRows == [c0 : ChrTokens, c5 : StrandTokens, c7 : TypeTokens]
ChainFileRows == [c0 : ChrTokens, c5 : StrandTokens, c7 : ChainTypeTokens]

SourceDir == "samples"
SourcePath == [dir |-> SourceDir, name |-> <<"a", "v2", "bed">>]

\* the path of a call that gives or returns none
NoPath == [dir |-> "", name |-> <<>>]

(* -------------------- pandas: read_table / to_csv --------------------- *)

\* the tokens read_table turns into NaN (its default na_values)
NaTokens == {"", "#N/A", "N/A", "NA", "NULL", "NaN", "None", "n/a", "nan", "null"}

IntTokens == {"0", "1", "2"}
FloatTokens == {"0.0", "1.0", "2.0"}

NumOf(t) ==
  CASE t \in {"0", "0.0"} -> 0
    [] t \in {"1", "1.0"} -> 1
    [] OTHER -> 2

IntStr(n) ==
  CASE n = 0 -> "0"
    [] n = 1 -> "1"
    [] OTHER -> "2"

NaN == [k |-> "nan", v |-> "nan"]
StrVal(s) == [k |-> "str", v |-> s]

\* read_table's inference of one column: int64 when every token is an
\* integer, float64 when every token is a number or missing, object
\* (strings, NaN for the missing ones) otherwise
ParseCol(toks) ==
  LET idx == DOMAIN toks
      present == {i \in idx : toks[i] \notin NaTokens}
      allInt == \A i \in present : toks[i] \in IntTokens
      allNum == \A i \in present : toks[i] \in IntTokens \cup FloatTokens
  IN  [i \in idx |->
        IF i \notin present THEN NaN
        ELSE IF allInt /\ present = idx THEN [k |-> "int", v |-> NumOf(toks[i])]
        ELSE IF allNum THEN [k |-> "float", v |-> NumOf(toks[i])]
        ELSE StrVal(toks[i])]

\* to_csv's text of one value (na_rep = '')
FormatVal(x) ==
  CASE x.k = "str" -> x.v
    [] x.k = "int" -> IntStr(x.v)
    [] x.k = "float" -> IntStr(x.v) \o ".0"
    [] OTHER -> ""

FormatRow(r) == [c0 |-> FormatVal(r.c0), c5 |-> FormatVal(r.c5), c7 |-> FormatVal(r.c7)]

BedFile(rows) == [kind |-> "bed", rows |-> rows]

\* pd.read_table(filepath, header=None, sep='\t')
read_table(file) ==
  IF file.kind # "bed" THEN [err |-> "UnicodeDecodeError", df |-> <<>>]
  ELSE IF file.rows = <<>> THEN [err |-> "EmptyDataError", df |-> <<>>]
  ELSE LET rows == file.rows
           col0 == ParseCol([i \in DOMAIN rows |-> rows[i].c0])
           col5 == ParseCol([i \in DOMAIN rows |-> rows[i].c5])
           col7 == ParseCol([i \in DOMAIN rows |-> rows[i].c7])
       IN  [err |-> "",
            df |-> [i \in DOMAIN rows |-> [c0 |-> col0[i], c5 |-> col5[i], c7 |-> col7[i]]]]

\* a mutant of WriteFile: a file opened for appending
WriteFileAppend(files, p, f) ==
  [q \in (DOMAIN files) \cup {p} |->
    IF q # p THEN files[q]
    ELSE IF p \in DOMAIN files /\ files[p].kind = "bed" /\ f.kind = "bed"
         THEN BedFile(files[p].rows \o f.rows)
         ELSE f]

\* the file system with file f at path p, whatever was there before
WriteFile(files, p, f) ==
  [q \in (DOMAIN files) \cup {p} |-> IF q = p THEN f ELSE files[q]]

\* a mutant of to_csv: header=False forgotten, the column labels come first
to_csv_header(files, df, out_path) ==
  WriteFile(files, out_path,
            BedFile(<<[c0 |-> "0", c5 |-> "5", c7 |-> "7"]>> \o [i \in DOMAIN df |-> FormatRow(df[i])]))

\* df.to_csv(out_path, sep='\t', header=False, index=False)
to_csv(files, df, out_path) ==
  WriteFile(files, out_path, BedFile([i \in DOMAIN df |-> FormatRow(df[i])]))

\* a mutant of BoolIndex: the kept rows come out last first
RECURSIVE BoolIndexReversed(_, _)
BoolIndexReversed(df, keep) ==
  IF df = <<>> THEN <<>>
  ELSE LET n == Len(df)
           front == BoolIndexReversed(SubSeq(df, 1, n - 1), keep)
       IN  IF n \in keep THEN <<df[n]>> \o front ELSE front

\* df[mask]: the rows of df at the positions in keep, in df's order
RECURSIVE BoolIndex(_, _)
BoolIndex(df, keep) ==
  IF df = <<>> THEN <<>>
  ELSE LET n == Len(df)
           front == BoolIndex(SubSeq(df, 1, n - 1), keep)
       IN  IF n \in keep THEN Append(front, df[n]) ELSE front

\* series == scalar for a str scalar: True only at str values equal to it
EqStr(x, s) == x.k = "str" /\ x.v = s

(* ------------------------------- Bed6 --------------------------------- *)

Stem(name) == Head(name)

OutPath(self, discriminator, ext) ==
  [dir |-> self.directory, name |-> <<self.stem \o "_" \o discriminator, ext>>]

Bed6Init(files, filepath) ==
  LET t == read_table(files[filepath])
  IN  [err |-> t.err,
       self |-> [filepath |-> filepath,
                 directory |-> filepath.dir,
                 stem |-> Stem(filepath.name),
                 df |-> t.df]]

get_chr_names(self) == {self.df[i].c0 : i \in DOMAIN self.df}

\* a mutant of select_chr: the selection is kept as the reader's table
select_chr_inplace(self, files, chr_name) ==
  LET chr_selected == BoolIndex(self.df, {i \in DOMAIN self.df : EqStr(self.df[i].c0, chr_name)})
      out_path == OutPath(self, chr_name, "bed")
  IN  [self |-> [self EXCEPT !.df = chr_selected], fs |-> to_csv(files, chr_selected, out_path),
       ret |-> out_path, err |-> ""]

select_chr(self, files, chr_name) ==
  LET chr_selected == BoolIndex(self.df, {i \in DOMAIN self.df : EqStr(self.df[i].c0, chr_name)})
      out_path == OutPath(self, chr_name, "bed")
  IN  [self |-> self, fs |-> to_csv(files, chr_selected, out_path),
       ret |-> out_path, err |-> ""]

\* a mutant of select_strand: the two strand symbols the wrong way round
select_strand_swapped(self, files, strand) ==
  LET out_path == OutPath(self, strand, "bed")
      sym == IF strand = "plus" THEN "-" ELSE "+"
      selected_strand == BoolIndex(self.df, {i \in DOMAIN self.df : EqStr(self.df[i].c5, sym)})
  IN  IF strand \in {"plus", "minus"}
      THEN [self |-> self, fs |-> to_csv(files, selected_strand, out_path),
            ret |-> out_path, err |-> ""]
      ELSE [self |-> self, fs |-> files, ret |-> NoPath, err |-> "UnboundLocalError"]

select_strand(self, files, strand) ==
  LET out_path == OutPath(self, strand, "bed")
      sym == IF strand = "plus" THEN "+" ELSE "-"
      selected_strand == BoolIndex(self.df, {i \in DOMAIN self.df : EqStr(self.df[i].c5, sym)})
  IN  IF strand \in {"plus", "minus"}
      THEN [self |-> self, fs |-> to_csv(files, selected_strand, out_path),
            ret |-> out_path, err |-> ""]
      ELSE [self |-> self, fs |-> files, ret |-> NoPath, err |-> "UnboundLocalError"]

(* ------------------------------- Bed12 -------------------------------- *)

get_seq_type(self) == {self.df[i].c7 : i \in DOMAIN self.df}

\* round(num / den, 0) as numpy rounds: to the nearest, a half to the even
RoundHalfEven(num, den) ==
  LET q == num \div den
      r == num % den
  IN  IF 2 * r < den THEN q
      ELSE IF 2 * r > den THEN q + 1
      ELSE IF q % 2 = 0 THEN q ELSE q + 1

\* Series.value_counts(): the distinct values that are not NaN, each with
\* the number of rows holding it
value_counts(col) ==
  LET vals == {col[i] : i \in DOMAIN col} \ {NaN}
  IN  [v \in vals |-> Cardinality({i \in DOMAIN col : col[i] = v})]

\* hundredths of a percent in one percent
Hundredths == 100

\* round(count / total * 100, 2), in hundredths of a percent
Percentage(count, total) == RoundHalfEven(count * 100 * Hundredths, total)

\* one record per row of the returned frame
count_seq_types(self) ==
  LET counts == value_counts([i \in DOMAIN self.df |-> self.df[i].c7])
  IN  {[seq_type |-> v, count |-> counts[v],
        percentage |-> Percentage(counts[v], Len(self.df))] : v \in DOMAIN counts}

draw_seq_types(self, files) ==
  LET out_path == OutPath(self, "seq_types", "png")
      seq_types == count_seq_types(self)
      chart == [kind |-> "png",
                wedges |-> {[label |-> t.seq_type, size |-> t.percentage] : t \in seq_types}]
  IN  [self |-> self, fs |-> WriteFile(files, out_path, chart), ret |-> out_path, err |-> ""]

select_seq_type(self, files, seq_type) ==
  LET selected_types == BoolIndex(self.df, {i \in DOMAIN self.df : EqStr(self.df[i].c7, seq_type)})
      out_path == OutPath(self, seq_type, "bed")
  IN  [self |-> self, fs |-> to_csv(files, selected_types, out_path),
       ret |-> out_path, err |-> ""]

(* ------------------------------ the calls ----------------------------- *)

SourceFiles(rowset) == UNION {[1..n -> rowset] : n \in 1..MaxRows}

\* a call: the method, the reader it ran on, its str argument, the path it
\* was given (the constructor) or returned (a writer), the value it
\* returned (a query), and the exception it raised ("" for none)
Call(op, r, arg, path, value, err) ==
  [op |-> op, self |-> r, arg |-> arg, path |-> path, value |-> value, err |-> err]

\* the state after Bed12(SourcePath), with budget calls to come
Loaded(rowset, budget) ==
  \E rows \in SourceFiles(rowset) :
    LET files == [p \in {SourcePath} |-> BedFile(rows)]
        made == Bed6Init(files, SourcePath)
    IN  /\ fs = files
        /\ readers = <<made.self>>
        /\ last = Call("__init__", 1, "", SourcePath, {}, made.err)
        /\ left = budget
        /\ repeat = FALSE

Init == Loaded(FileRows, MaxCalls)

ChainInit == Loaded(ChainFileRows, MaxChain)

Again(op, r, arg) == last.op = op /\ last.self = r /\ last.arg = arg

\* a method that writes a file: its result res, on reader r
Apply(op, r, arg, res) ==
  /\ left > 0
  /\ left' = left - 1
  /\ repeat' = Again(op, r, arg)
  /\ readers' = [readers EXCEPT ![r] = res.self]
  /\ fs' = res.fs
  /\ last' = Call(op, r, arg, res.ret, {}, res.err)

\* a method that only returns a value
Query(op, r, value) ==
  /\ left > 0
  /\ left' = left - 1
  /\ last' = Call(op, r, "", NoPath, value, "")
  /\ repeat' = Again(op, r, "")
  /\ UNCHANGED <<fs, readers>>

Construct ==
  \E p \in DOMAIN fs :
    LET made == Bed6Init(fs, p)
    IN  /\ left > 0
        /\ left' = left - 1
        /\ readers' = IF made.err = "" THEN Append(readers, made.self) ELSE readers
        /\ last' = Call("__init__", IF made.err = "" THEN Len(readers) + 1 ELSE 0,
                        "", p, {}, made.err)
        /\ repeat' = FALSE
        /\ UNCHANGED fs

GetChrNames == \E r \in DOMAIN readers : Query("get_chr_names", r, get_chr_names(readers[r]))

SelectChr ==
  \E r \in DOMAIN readers, c \in ChrArgs :
    Apply("select_chr", r, c, select_chr(readers[r], fs, c))

SelectStrand ==
  \E r \in DOMAIN readers, s \in StrandArgs :
    Apply("select_strand", r, s, select_strand(readers[r], fs, s))

GetSeqType == \E r \in DOMAIN readers : Query("get_seq_type", r, get_seq_type(readers[r]))

CountSeqTypes ==
  \E r \in DOMAIN readers : Query("count_seq_types", r, count_seq_types(readers[r]))

DrawSeqTypes ==
  \E r \in DOMAIN readers :
    Apply("draw_seq_types", r, "", draw_seq_types(readers[r], fs))

SelectSeqType ==
  \E r \in DOMAIN readers, t \in TypeArgs :
    Apply("select_seq_type", r, t, select_seq_type(readers[r], fs, t))

Next ==
  \/ Construct
  \/ GetChrNames
  \/ SelectChr
  \/ SelectStrand
  \/ GetSeqType
  \/ CountSeqTypes
  \/ DrawSeqTypes
  \/ SelectSeqType

Spec == Init /\ [][Next]_vars

\* the same calls, over three sequence types and one call deeper: long
\* enough for load, filter, reload, filter as in the __main__ driver
ChainSpec == ChainInit /\ [][Next]_vars

TypeOK ==
  /\ left >= 0
  /\ Len(readers) >= 1
  /\ \A r \in DOMAIN readers : readers[r].df # <<>>

(* ------------------------- the claims' vocabulary --------------------- *)

Filters == {"select_chr", "select_strand", "select_seq_type"}

\* the j-th smallest element of a set of positions
Nth(S, j) == CHOOSE i \in S : Cardinality({k \in S : k <= i}) = j

\* the text of the rows of df at the positions S, in df's order
RowsAt(df, S) == [j \in 1..Cardinality(S) |-> FormatRow(df[Nth(S, j)])]

\* the positions of df whose column col is the str s
Matching(df, col, s) ==
  {i \in DOMAIN df :
    LET x == IF col = 0 THEN df[i].c0 ELSE IF col = 5 THEN df[i].c5 ELSE df[i].c7
    IN  x.k = "str" /\ x.v = s}

\* the positions of its reader's table that the last call, a filter, asks for
Asked ==
  LET df == readers[last.self].df
  IN  CASE last.op = "select_chr" -> Matching(df, 0, last.arg)
        [] last.op = "select_seq_type" -> Matching(df, 7, last.arg)
        [] last.op = "select_strand" /\ last.arg = "plus" -> Matching(df, 5, "+")
        [] last.op = "select_strand" /\ last.arg = "minus" -> Matching(df, 5, "-")
        [] OTHER -> {}

LastDf == readers[last.self].df

RECURSIVE SumOf(_, _)
SumOf(f, S) ==
  IF S = {} THEN 0
  ELSE LET x == CHOOSE y \in S : TRUE IN f[x] + SumOf(f, S \ {x})

Abs(n) == IF n < 0 THEN -n ELSE n

\* one filter, its output loaded into a new reader, a second filter on that
\* reader: the exception that stopped the chain, or the rows of the last file
Filter(op, self, files, arg) ==
  IF op = "select_chr" THEN select_chr(self, files, arg) ELSE select_strand(self, files, arg)

Chained(self, files, op1, arg1, op2, arg2) ==
  LET one == Filter(op1, self, files, arg1)
      made == Bed6Init(one.fs, one.ret)
      two == Filter(op2, made.self, one.fs, arg2)
  IN  IF one.err # "" THEN [err |-> one.err, rows |-> <<>>]
      ELSE IF made.err # "" THEN [err |-> made.err, rows |-> <<>>]
      ELSE IF two.err # "" THEN [err |-> two.err, rows |-> <<>>]
      ELSE [err |-> "", rows |-> two.fs[two.ret].rows]

\* all of 100 percent, in hundredths of a percent
Whole == 100 * Hundredths

(* ------------------------------ the claims ---------------------------- *)

\* C1: the file select_chr(c) writes, loaded into a new reader, has
\* get_chr_names() within {c}: the load succeeds (an empty table when no
\* row matched) and every name is the str c.
C1_ReloadNames ==
  \A r \in DOMAIN readers, c \in ChrArgs :
    (last.op = "__init__" /\ last.path = OutPath(readers[r], c, "bed")) =>
      /\ last.err = ""
      /\ get_chr_names(readers[last.self]) \subseteq {StrVal(c)}

\* C2: select_strand with an argument other than "plus" or "minus" raises
\* InvalidArgumentError, returns no path, and creates or overwrites no file
\* (so it writes no earlier selection either), whatever calls came before.
C2_InvalidArgument ==
  [][(last'.op = "select_strand" /\ last'.arg \notin {"plus", "minus"}) =>
       /\ last'.err = "InvalidArgumentError"
       /\ last'.path = NoPath
       /\ fs' = fs]_vars

\* C3: select_strand("plus") writes exactly the rows of the table whose
\* column 5 is "+", select_strand("minus") exactly those whose column 5 is
\* "-", in the table's order; a row with any other column 5 is in neither.
C3_StrandExact ==
  (last.op = "select_strand" /\ last.arg \in {"plus", "minus"}) =>
    LET sym == IF last.arg = "plus" THEN "+" ELSE "-"
    IN  /\ last.err = ""
        /\ last.path \in DOMAIN fs
        /\ fs[last.path] = BedFile(RowsAt(LastDf, Matching(LastDf, 5, sym)))
        /\ \A j \in DOMAIN fs[last.path].rows : fs[last.path].rows[j].c5 = sym

\* a "plus" selection that kept a row and left another out
C3_Witness ==
  /\ last.op = "select_strand" /\ last.arg = "plus"
  /\ fs[last.path].rows # <<>>
  /\ Len(fs[last.path].rows) < Len(LastDf)

\* C4: after any filter the rows of the output file are the asked-for rows
\* of the table, each once, unaltered, in the table's order: there is a
\* strictly increasing map from output lines to table rows.
C4_Subsequence ==
  (last.op \in Filters /\ last.err = "") =>
    LET out == fs[last.path].rows
    IN  \E f \in [DOMAIN out -> DOMAIN LastDf] :
          /\ \A i, j \in DOMAIN out : i < j => f[i] < f[j]
          /\ \A j \in DOMAIN out : out[j] = FormatRow(LastDf[f[j]])
          /\ {f[j] : j \in DOMAIN out} = Asked

\* a filter that wrote two different rows
C4_Witness ==
  /\ last.op \in Filters /\ last.err = ""
  /\ Len(fs[last.path].rows) = 2
  /\ fs[last.path].rows[1] # fs[last.path].rows[2]

\* C5: the counts count_seq_types() returns sum to the table's row count and
\* its percentages sum to 100.00 within the rounding of each (half a
\* hundredth per returned row).
C5_Sums ==
  (last.op = "count_seq_types") =>
    LET count == [t \in last.value |-> t.count]
        percentage == [t \in last.value |-> t.percentage]
    IN  /\ SumOf(count, last.value) = Len(LastDf)
        /\ 2 * Abs(SumOf(percentage, last.value) - Whole) <= Cardinality(last.value)

\* C6: every percentage of count_seq_types() is taken of the whole row
\* count, and every row of the table, a row with a missing column 7
\* included, is counted in the returned row of its column-7 value.
C6_EveryRowBucketed ==
  (last.op = "count_seq_types") =>
    /\ \A t \in last.value :
         2 * Abs(t.percentage * Len(LastDf) - t.count * Whole) <= Len(LastDf)
    /\ \A i \in DOMAIN LastDf :
         \E t \in last.value :
           /\ t.seq_type = LastDf[i].c7
           /\ t.count = Cardinality({j \in DOMAIN LastDf : LastDf[j].c7 = LastDf[i].c7})

\* C7: when no row matches, select_chr and select_seq_type raise nothing,
\* write a zero-length file <stem>_<argument>.bed in the source directory
\* and return its path.
C7_EmptyMatch ==
  (last.op \in {"select_chr", "select_seq_type"} /\ Asked = {}) =>
    LET self == readers[last.self]
    IN  /\ last.err = ""
        /\ last.path = [dir |-> self.filepath.dir,
                        name |-> <<self.stem \o "_" \o last.arg, "bed">>]
        /\ last.path \in DOMAIN fs
        /\ fs[last.path] = BedFile(<<>>)

\* select_chr found no row
C7_Witness ==
  /\ last.op = "select_chr" /\ Asked = {}
  /\ fs[last.path].rows = <<>>

\* C8: select_chr(c) run again on the same reader returns the same path and
\* leaves every file as the first run left it; the file holds the rows of
\* one call, never those of both.
C8_Idempotent ==
  [][(last'.op = "select_chr" /\ repeat') =>
       /\ last'.path = last.path
       /\ fs' = fs
       /\ Len(fs'[last'.path].rows) = Cardinality(Matching(readers[last'.self].df, 0, last'.arg))]_vars

\* select_chr has run twice over and its file is not empty
C8_Witness ==
  /\ last.op = "select_chr" /\ repeat
  /\ fs[last.path].rows # <<>>

\* C9: no call, failing or not, changes a reader: its table (rows, order,
\* count), its directory and its stem stay as constructed.
C9_ReadOnly ==
  [][\A r \in DOMAIN readers : r \in DOMAIN readers' /\ readers'[r] = readers[r]]_vars

\* a call failed after another had written a file
C9_Witness ==
  /\ last.op = "select_strand" /\ last.err # ""
  /\ Cardinality(DOMAIN fs) > 1

\* C10: with T the table of the source file and c a chromosome of T, the
\* file select_strand(s) writes from the reloaded output of select_chr(c)
\* holds exactly T's rows with column 0 = c and column 5 = the symbol of s,
\* in T's order; and select_strand(s) first, select_chr(c) on its reloaded
\* output, gives the same rows.
C10_ChainCommutes ==
  \A r1, r2 \in DOMAIN readers, c \in ChrArgs :
    ( /\ last.op = "select_strand" /\ last.arg \in {"plus", "minus"} /\ last.self = r2
      /\ readers[r1].filepath = SourcePath
      /\ readers[r2].filepath = OutPath(readers[r1], c, "bed") ) =>
      LET T == readers[r1].df
          sym == IF last.arg = "plus" THEN "+" ELSE "-"
          other == Chained(readers[r1], fs, "select_strand", last.arg, "select_chr", c)
      IN  /\ fs[last.path].rows = RowsAt(T, Matching(T, 0, c) \cap Matching(T, 5, sym))
          /\ other.err = ""
          /\ other.rows = fs[last.path].rows

====
